---- MODULE Spec2Model ----
(***************************************************************************)
(* rusty: a terminal break-reminder timer (src/rusty.rs).                  *)
(*                                                                         *)
(* Two threads share the atomic fields of one Timer:                       *)
(*   - the timer thread spawned by Timer::start_timer_thread, and          *)
(*   - the main thread, which reads keys and calls                         *)
(*     Timer::handle_interval_change.                                      *)
(* Every SeqCst load, store and fetch_add is one step; the thread-local    *)
(* computation that follows an access belongs to that step.                *)
(*                                                                         *)
(* Time is in seconds.  start_time.elapsed().as_secs() is the variable     *)
(* now; it moves forward in multiples of TimeGrain, at any moment.         *)
(***************************************************************************)
EXTENDS Integers, Sequences, FiniteSets, TLC

\* ---------------------------------------------------------------- bounds
TimeGrain == 300
MaxElapsed == 3000
MaxInterval == 3300
MaxElapsedNoKey == 6000
MaxSeconds == 3700

\* ---------------------------------------------------- TimerConfig::default
DefaultConfig ==
    [ default_break_interval |-> 50 * 60,
      min_break_interval     |-> 5 * 60,
      interval_change        |-> 5 * 60,
      max_reminders          |-> 8,
      reminder_interval      |-> 5 * 60 ]

\* Key events delivered by stdin.keys(): the four commands, some other key,
\* and the end of the stream.
Keys == {"+", "-", "?", "q", "x", "EOF"}

VARIABLES
    config,            \* Timer.config (cloned by the timer thread)
    break_interval,    \* Timer.break_interval   : AtomicU64
    next_break_time,   \* Timer.next_break_time  : AtomicU64
    reminder_count,    \* Timer.reminder_count   : AtomicUsize
    should_exit,       \* Timer.should_exit      : AtomicBool
    is_break_time,     \* Timer.is_break_time    : AtomicBool
    now,               \* what start_time.elapsed().as_secs() returns if read
    tpc,               \* timer thread: line it is about to execute
    elapsed,           \* timer thread local `elapsed`
    next_break,        \* timer thread local `next_break`
    reminders,         \* timer thread local `reminders`
    countdown,         \* timer thread: the time it printed in this iteration
    mpc,               \* main thread: line it is about to execute
    key,               \* main thread: the key being handled
    current_interval,  \* handler local `current_interval`
    new_interval,      \* handler local `new_interval`
    action,            \* handler local `action`
    stdin              \* keys typed ahead and not yet read

vars == << config, break_interval, next_break_time, reminder_count,
           should_exit, is_break_time, now, tpc, elapsed, next_break,
           reminders, countdown, mpc, key, current_interval, new_interval, action,
           stdin >>

timer    == << break_interval, next_break_time, reminder_count,
               should_exit, is_break_time >>
tlocals  == << elapsed, next_break, reminders, countdown >>
hlocals  == << key, current_interval, new_interval, action >>

Max(a, b) == IF a >= b THEN a ELSE b

\* ------------------------------------------------------------ format_time
\* Text is a sequence of characters.
DigitChars == << "0", "1", "2", "3", "4", "5", "6", "7", "8", "9" >>

\* `{}` of an unsigned integer: its decimal digits, most significant first.
RECURSIVE Decimal(_)
Decimal(n) ==
    IF n < 10 THEN << DigitChars[n + 1] >>
    ELSE Decimal(n \div 10) \o << DigitChars[(n % 10) + 1] >>

\* `{:02}`: zero-padded to a width of at least two.
Pad2(n) ==
    IF Len(Decimal(n)) < 2 THEN << "0" >> \o Decimal(n) ELSE Decimal(n)

\* format_time with the minutes not reduced modulo 60 written as seconds.
format_time_SwappedFields(seconds) ==
    Pad2(seconds % 60) \o << ":" >> \o Pad2(seconds \div 60)

\* line 33: format!("{:02}:{:02}", seconds / 60, seconds % 60)
format_time(seconds) ==
    Pad2(seconds \div 60) \o << ":" >> \o Pad2(seconds % 60)

\* ------------------------------------------------------------ Timer::new
TimerNew(cfg) ==
    /\ config = cfg
    /\ break_interval = cfg.default_break_interval
    /\ next_break_time = cfg.default_break_interval
    /\ reminder_count = 0
    /\ should_exit = FALSE
    /\ is_break_time = FALSE

\* main up to the key loop: the timer thread is spawned (its start_time is
\* taken), the terminal is in raw mode, nothing is typed yet.
Started ==
    /\ now = 0
    /\ tpc = "t106"
    /\ elapsed = 0 /\ next_break = 0 /\ reminders = 0 /\ countdown = << >>
    /\ mpc = "keys"
    /\ key = "" /\ current_interval = 0 /\ new_interval = 0 /\ action = ""

Init ==
    /\ TimerNew(DefaultConfig)
    /\ Started
    /\ stdin = << >>

\* ------------------------------------------------------------ environment
\* Time passes, up to a horizon.
AdvanceWithin(horizon) ==
    /\ now + TimeGrain <= horizon
    /\ now' = now + TimeGrain
    /\ UNCHANGED << config, timer, tpc, tlocals, mpc, hlocals, stdin >>

Advance == AdvanceWithin(MaxElapsed)

\* The longer horizon of a run without keys.
AdvanceNoKey == AdvanceWithin(MaxElapsedNoKey)

\* ------------------------------------------- Timer::start_timer_thread
\* TLoopHead with the loop testing the wrong flag.
TLoopHead_WrongFlag ==
    /\ tpc = "t106"
    /\ tpc' = IF is_break_time THEN "done" ELSE "t107"
    /\ UNCHANGED << config, timer, now, tlocals, mpc, hlocals, stdin >>

\* line 106: while !should_exit.load()
TLoopHead ==
    /\ tpc = "t106"
    /\ tpc' = IF should_exit THEN "done" ELSE "t107"
    /\ UNCHANGED << config, timer, now, tlocals, mpc, hlocals, stdin >>

\* line 107: let elapsed = start_time.elapsed().as_secs()
TReadClock ==
    /\ tpc = "t107"
    /\ elapsed' = now
    /\ tpc' = "t108"
    /\ UNCHANGED << config, timer, now, next_break, reminders, countdown,
                    mpc, hlocals, stdin >>

\* line 108: let next_break = next_break_time.load()
TLoadNextBreak ==
    /\ tpc = "t108"
    /\ next_break' = next_break_time
    /\ tpc' = "t109"
    /\ UNCHANGED << config, timer, now, elapsed, reminders, countdown, mpc,
                    hlocals, stdin >>

\* TLoadReminders with `elapsed > next_break`.
TLoadReminders_Strict ==
    /\ tpc = "t109"
    /\ reminders' = reminder_count
    /\ tpc' = IF elapsed > next_break THEN "t112" ELSE "t122"
    /\ UNCHANGED << config, timer, now, elapsed, next_break, countdown,
                    mpc, hlocals, stdin >>

\* TLoadReminders with `elapsed <= next_break`.
TLoadReminders_LessEqual ==
    /\ tpc = "t109"
    /\ reminders' = reminder_count
    /\ tpc' = IF elapsed <= next_break THEN "t112" ELSE "t122"
    /\ UNCHANGED << config, timer, now, elapsed, next_break, countdown,
                    mpc, hlocals, stdin >>

\* line 109: let reminders = reminder_count.load()
\* line 111: if elapsed >= next_break { .. } else if ..
TLoadReminders ==
    /\ tpc = "t109"
    /\ reminders' = reminder_count
    /\ tpc' = IF elapsed >= next_break THEN "t112" ELSE "t122"
    /\ UNCHANGED << config, timer, now, elapsed, next_break, countdown,
                    mpc, hlocals, stdin >>

\* TStoreBreak with `reminders <= config.max_reminders`.
TStoreBreak_OffByOne ==
    /\ tpc = "t112"
    /\ is_break_time' = TRUE
    /\ tpc' = IF reminders <= config.max_reminders THEN "t116" ELSE "done"
    /\ UNCHANGED << config, break_interval, next_break_time, reminder_count,
                    should_exit, now, tlocals, mpc, hlocals, stdin >>

\* line 112: is_break_time.store(true)
\* line 113: if reminders < config.max_reminders { .. } else { break }
TStoreBreak ==
    /\ tpc = "t112"
    /\ is_break_time' = TRUE
    /\ tpc' = IF reminders < config.max_reminders THEN "t116" ELSE "done"
    /\ UNCHANGED << config, break_interval, next_break_time, reminder_count,
                    should_exit, now, tlocals, mpc, hlocals, stdin >>

\* lines 114-116: "Time to take a break!", reminder_count.fetch_add(1)
TFetchAdd ==
    /\ tpc = "t116"
    /\ reminder_count' = reminder_count + 1
    /\ tpc' = "t117"
    /\ UNCHANGED << config, break_interval, next_break_time, should_exit,
                    is_break_time, now, tlocals, mpc, hlocals, stdin >>

\* TStoreNextBreak counting the next reminder from the clock reading.
TStoreNextBreak_FromElapsed ==
    /\ tpc = "t117"
    /\ next_break_time' = elapsed + config.reminder_interval
    /\ tpc' = "t137"
    /\ UNCHANGED << config, break_interval, reminder_count, should_exit,
                    is_break_time, now, tlocals, mpc, hlocals, stdin >>

\* lines 117-118: next_break_time.store(next_break + config.reminder_interval)
TStoreNextBreak ==
    /\ tpc = "t117"
    /\ next_break_time' = next_break + config.reminder_interval
    /\ tpc' = "t137"
    /\ UNCHANGED << config, break_interval, reminder_count, should_exit,
                    is_break_time, now, tlocals, mpc, hlocals, stdin >>

\* line 122: else if !is_break_time.load() {
\* lines 123-129: remaining = next_break - elapsed; print format_time(remaining)
\* The subtraction is a u64 one: with next_break below elapsed the debug build
\* panics (the release build wraps to a value beyond every bound here).
TLoadBreak ==
    /\ tpc = "t122"
    /\ IF is_break_time
       THEN /\ tpc' = "t137"
            /\ countdown' = countdown
       ELSE IF next_break < elapsed
       THEN /\ tpc' = "panicked"
            /\ countdown' = countdown
       ELSE /\ tpc' = "t137"
            /\ countdown' = format_time(next_break - elapsed)
    /\ UNCHANGED << config, timer, now, elapsed, next_break, reminders, mpc,
                    hlocals, stdin >>

\* lines 132-137: thread::sleep(sleep_duration.min(1)); the locals go out of
\* scope at the end of the loop body.
TSleep ==
    /\ tpc = "t137"
    /\ tpc' = "t106"
    /\ elapsed' = 0 /\ next_break' = 0 /\ reminders' = 0
    /\ countdown' = << >>
    /\ UNCHANGED << config, timer, now, mpc, hlocals, stdin >>

TimerThread ==
    \/ TLoopHead \/ TReadClock \/ TLoadNextBreak \/ TLoadReminders
    \/ TStoreBreak \/ TFetchAdd \/ TStoreNextBreak \/ TLoadBreak \/ TSleep

\* ------------------------------------------ Timer::handle_interval_change
\* ChangedInterval without the `.max(min_break_interval)`.
ChangedInterval_NoFloor(k, current, cfg) ==
    IF k = "+"
    THEN current + cfg.interval_change
    ELSE current - cfg.interval_change

\* ChangedInterval with `.min(..)` written for `.max(..)`.
ChangedInterval_MinForMax(k, current, cfg) ==
    IF k = "+"
    THEN current + cfg.interval_change
    ELSE IF current - cfg.interval_change <= cfg.min_break_interval
         THEN current - cfg.interval_change
         ELSE cfg.min_break_interval

\* lines 57-61: the interval a key asks for.  `current - interval_change` is a
\* u64 subtraction; callers reach it only with current >= interval_change
\* (see HLoadInterval).
ChangedInterval(k, current, cfg) ==
    IF k = "+"
    THEN current + cfg.interval_change
    ELSE Max(current - cfg.interval_change, cfg.min_break_interval)

\* ActionText with `new_interval <= current_interval`.
ActionText_LessEqual(k, current, new) ==
    IF k = "+" THEN "increased"
    ELSE IF new <= current THEN "decreased"
    ELSE "already at minimum"

\* lines 58, 64-68: the word the acknowledgement uses.
ActionText(k, current, new) ==
    IF k = "+" THEN "increased"
    ELSE IF new < current THEN "decreased"
    ELSE "already at minimum"

\* HLoadBreak without the break gate.
HLoadBreak_NoGate ==
    /\ mpc = "h55"
    /\ mpc' = "h56"
    /\ UNCHANGED << config, timer, now, tpc, tlocals, hlocals, stdin >>

\* line 55: if !self.is_break_time.load() { .. }   (else: line 79, Ok(()))
HLoadBreak ==
    /\ mpc = "h55"
    /\ IF is_break_time
       THEN /\ mpc' = "keys"
            /\ key' = ""
       ELSE /\ mpc' = "h56"
            /\ key' = key
    /\ UNCHANGED << config, timer, now, tpc, tlocals, current_interval,
                    new_interval, action, stdin >>

\* HLoadInterval reading next_break_time where it should read
\* break_interval.
HLoadInterval_WrongField ==
    /\ mpc = "h56"
    /\ current_interval' = next_break_time
    /\ new_interval' = ChangedInterval(key, next_break_time, config)
    /\ action' = ActionText(key, next_break_time, new_interval')
    /\ mpc' = "h72"
    /\ UNCHANGED << config, timer, now, tpc, tlocals, key, stdin >>

\* line 56: let current_interval = self.break_interval.load()
\* lines 57-70: (new_interval, action).  A `-` with current_interval below
\* interval_change underflows the u64: the debug build panics; the release
\* build wraps to a value above MaxInterval, which the model does not follow.
HLoadInterval ==
    /\ mpc = "h56"
    /\ current_interval' = break_interval
    /\ IF key = "-" /\ break_interval < config.interval_change
       THEN /\ mpc' = "panicked"
            /\ UNCHANGED << new_interval, action >>
       ELSE /\ new_interval' = ChangedInterval(key, break_interval, config)
            /\ action' = ActionText(key, break_interval, new_interval')
            /\ mpc' = "h72"
    /\ UNCHANGED << config, timer, now, tpc, tlocals, key, stdin >>

\* line 72: self.break_interval.store(new_interval)
HStoreInterval ==
    /\ mpc = "h72"
    /\ break_interval' = new_interval
    /\ mpc' = "h73"
    /\ UNCHANGED << config, next_break_time, reminder_count, should_exit,
                    is_break_time, now, tpc, tlocals, hlocals, stdin >>

\* HStoreNextBreak storing the deadline relative to the current time.
HStoreNextBreak_FromNow ==
    /\ mpc = "h73"
    /\ next_break_time' = now + new_interval
    /\ mpc' = "keys"
    /\ key' = "" /\ current_interval' = 0 /\ new_interval' = 0 /\ action' = ""
    /\ UNCHANGED << config, break_interval, reminder_count, should_exit,
                    is_break_time, now, tpc, tlocals, stdin >>

\* HStoreNextBreak storing the interval loaded at line 56.
HStoreNextBreak_OldInterval ==
    /\ mpc = "h73"
    /\ next_break_time' = current_interval
    /\ mpc' = "keys"
    /\ key' = "" /\ current_interval' = 0 /\ new_interval' = 0 /\ action' = ""
    /\ UNCHANGED << config, break_interval, reminder_count, should_exit,
                    is_break_time, now, tpc, tlocals, stdin >>

\* HStoreNextBreak also starting a new non-break period.
HStoreNextBreak_ClearsBreak ==
    /\ mpc = "h73"
    /\ next_break_time' = new_interval
    /\ is_break_time' = FALSE
    /\ mpc' = "keys"
    /\ key' = "" /\ current_interval' = 0 /\ new_interval' = 0 /\ action' = ""
    /\ UNCHANGED << config, break_interval, reminder_count, should_exit,
                    now, tpc, tlocals, stdin >>

\* line 73: self.next_break_time.store(new_interval)
\* lines 75-79: write "Break interval {action} to {..}", return
HStoreNextBreak ==
    /\ mpc = "h73"
    /\ next_break_time' = new_interval
    /\ mpc' = "keys"
    /\ key' = "" /\ current_interval' = 0 /\ new_interval' = 0 /\ action' = ""
    /\ UNCHANGED << config, break_interval, reminder_count, should_exit,
                    is_break_time, now, tpc, tlocals, stdin >>

HandleIntervalChange ==
    HLoadBreak \/ HLoadInterval \/ HStoreInterval \/ HStoreNextBreak

\* ------------------------------------------------------------------ main
\* lines 187-208: the next key of stdin.keys() and the arm it selects: a key
\* typed ahead if there is one, else whatever the user types next.  EOF ends
\* the for loop.  `+` is typed only while the interval stays within
\* MaxInterval.
ReadKey ==
    /\ mpc = "keys"
    /\ \E k \in (IF stdin = << >> THEN Keys ELSE {Head(stdin)}) :
         /\ k = "+" => break_interval + config.interval_change <= MaxInterval
         /\ mpc' = CASE k \in {"+", "-"} -> "h55"
                      [] k = "q"          -> "m197"
                      [] k = "EOF"        -> "m212"
                      [] k = "?"          -> "m193"
                      [] OTHER            -> "m201"
         /\ key' = IF k \in {"+", "-"} THEN k ELSE ""
    /\ stdin' = IF stdin = << >> THEN stdin ELSE Tail(stdin)
    /\ UNCHANGED << config, timer, now, tpc, tlocals, current_interval,
                    new_interval, action >>

\* lines 192-195: write "Commands: + - q"
MHelp ==
    /\ mpc = "m193"
    /\ mpc' = "keys"
    /\ UNCHANGED << config, timer, now, tpc, tlocals, hlocals, stdin >>

\* The `_` arm taken for the quit arm.
MUnknown_Quits ==
    /\ mpc = "m201"
    /\ should_exit' = TRUE
    /\ mpc' = "m212"
    /\ UNCHANGED << config, break_interval, next_break_time, reminder_count,
                    is_break_time, now, tpc, tlocals, hlocals, stdin >>

\* lines 200-207: write "Unknown command (press ? for help)"
MUnknown ==
    /\ mpc = "m201"
    /\ mpc' = "keys"
    /\ UNCHANGED << config, timer, now, tpc, tlocals, hlocals, stdin >>

\* lines 197-198: timer.should_exit.store(true); break
MQuit ==
    /\ mpc = "m197"
    /\ should_exit' = TRUE
    /\ mpc' = "m212"
    /\ UNCHANGED << config, break_interval, next_break_time, reminder_count,
                    is_break_time, now, tpc, tlocals, hlocals, stdin >>

\* MStoreExit storing false.
MStoreExit_StoresFalse ==
    /\ mpc = "m212"
    /\ should_exit' = FALSE
    /\ mpc' = "m213"
    /\ UNCHANGED << config, break_interval, next_break_time, reminder_count,
                    is_break_time, now, tpc, tlocals, hlocals, stdin >>

\* line 212: timer.should_exit.store(true)
MStoreExit ==
    /\ mpc = "m212"
    /\ should_exit' = TRUE
    /\ mpc' = "m213"
    /\ UNCHANGED << config, break_interval, next_break_time, reminder_count,
                    is_break_time, now, tpc, tlocals, hlocals, stdin >>

\* main without the join.
MJoin_NoWait ==
    /\ mpc = "m213"
    /\ mpc' = "m216"
    /\ UNCHANGED << config, timer, now, tpc, tlocals, hlocals, stdin >>

\* line 213: timer_handle.join()
MJoin ==
    /\ mpc = "m213"
    /\ tpc = "done"
    /\ mpc' = "m216"
    /\ UNCHANGED << config, timer, now, tpc, tlocals, hlocals, stdin >>

\* lines 216-225: restore the terminal, Ok(())
MRestore ==
    /\ mpc = "m216"
    /\ mpc' = "done"
    /\ UNCHANGED << config, timer, now, tpc, tlocals, hlocals, stdin >>

Main ==
    \/ ReadKey \/ HandleIntervalChange \/ MHelp \/ MUnknown \/ MQuit
    \/ MStoreExit \/ MJoin \/ MRestore

\* ----------------------------------------------------------- the program
Next == Advance \/ TimerThread \/ Main

Spec == Init /\ [][Next]_vars

\* The operating system schedules the timer thread: a step it can take is
\* eventually taken.
FairSpec == Spec /\ WF_vars(TimerThread)

\* -------------------------------------------------- `+` then `-`, from any
\* interval the program can hold.  The timer is built with that interval,
\* the user has typed `+`, `-` and closed the input; the clock has not moved
\* yet, so the timer thread only counts down.
RoundTripIntervals ==
    { v \in DefaultConfig.min_break_interval
              .. (MaxInterval - DefaultConfig.interval_change) :
        (v - DefaultConfig.min_break_interval)
            % DefaultConfig.interval_change = 0 }

RoundTripInit ==
    /\ \E v \in RoundTripIntervals :
          TimerNew([DefaultConfig EXCEPT !.default_break_interval = v])
    /\ Started
    /\ stdin = << "+", "-", "EOF" >>

RoundTripNext ==
    \/ ReadKey \/ HandleIntervalChange \/ MStoreExit \/ MJoin \/ MRestore
    \/ TLoopHead \/ TReadClock \/ TLoadNextBreak \/ TLoadReminders
    \/ TLoadBreak \/ TSleep

RoundTripSpec == RoundTripInit /\ [][RoundTripNext]_vars

\* ------------------------------------------------------ a run without keys
\* Nobody types; time keeps advancing and the timer thread keeps running.
NoKeyNext == AdvanceNoKey \/ TimerThread

NoKeySpec ==
    Init /\ [][NoKeyNext]_vars /\ WF_vars(AdvanceNoKey) /\ WF_vars(TimerThread)

\* ------------------------------------------------- format_time on its own
\* The timer thread is at line 122 with `seconds` left on its countdown, for
\* every `seconds` up to MaxSeconds, and prints it.
FormatInit ==
    /\ \E seconds \in 0 .. MaxSeconds :
          /\ TimerNew([DefaultConfig EXCEPT !.default_break_interval = seconds])
          /\ next_break = seconds
    /\ now = 0 /\ elapsed = 0 /\ reminders = 0 /\ countdown = << >>
    /\ tpc = "t122"
    /\ mpc = "keys"
    /\ key = "" /\ current_interval = 0 /\ new_interval = 0 /\ action = ""
    /\ stdin = << >>

FormatNext == TLoadBreak \/ TSleep

FormatSpec == FormatInit /\ [][FormatNext]_vars

\* ================================================================ claims
\* A step of the main thread (the input process) / of the timer thread.
MainStep == mpc' # mpc
ThreadStep == tpc' # tpc

\* C1: in every reachable state the break interval is at least the
\* configured minimum interval.
C1_IntervalAtLeastMin ==
    break_interval >= config.min_break_interval

\* A `-` handled at the minimum: the clamp has acted and the interval has
\* been stored.
C1_Witness ==
    /\ mpc = "h73" /\ key = "-"
    /\ current_interval = config.min_break_interval
    /\ break_interval = config.min_break_interval

\* C2: in every reachable state reminder_count is at most max_reminders.
C2_RemindersAtMostMax ==
    reminder_count <= config.max_reminders

\* The timer thread has fired max_reminders reminders and left its loop
\* through the `break`.
C2_Witness ==
    /\ reminder_count = config.max_reminders
    /\ tpc = "done"
    /\ ~should_exit

\* C3: when the handler of a `+` or `-` finds is_break_time true, its step
\* returns to the key loop and changes neither break_interval nor
\* next_break_time.
C3_NoEditDuringBreak ==
    [][ (mpc = "h55" /\ is_break_time /\ MainStep)
            => /\ mpc' = "keys"
               /\ break_interval' = break_interval
               /\ next_break_time' = next_break_time ]_vars

\* A `+` is about to be handled while the break is active.
C3_Witness ==
    /\ mpc = "h55" /\ key = "+"
    /\ is_break_time

\* C4: the main thread never stores to next_break_time in a state where
\* is_break_time is true.
C4_NoDeadlineStoreDuringBreak ==
    [][ (mpc = "h73" /\ MainStep) => ~is_break_time ]_vars

\* C5: the timer thread has left its loop only with should_exit set; in
\* particular, when it leaves on exhausting its reminders it has set it.
C5_ExhaustionRequestsExit ==
    (tpc = "done" /\ reminder_count = config.max_reminders) => should_exit

\* C6: the `q` arm sets should_exit; once should_exit is set the timer
\* thread starts no further loop iteration (its next test of the loop
\* condition leaves the loop); and the timer thread does terminate.
C6_QuitStopsClock ==
    /\ [][ (mpc = "m197" /\ MainStep) => should_exit' ]_vars
    /\ [][ (should_exit /\ tpc = "t106" /\ ThreadStep) => tpc' = "done" ]_vars
    /\ (should_exit ~> tpc = "done")

\* `q` has been handled (the main thread is past line 198 and line 212 has
\* not run yet) and the timer thread has terminated.
C6_Witness ==
    /\ mpc = "m212"
    /\ should_exit
    /\ tpc = "done"

\* C7: break_interval changes only by the handler's store at line 72, and
\* that store writes the edit applied to the value break_interval holds at
\* that moment: no edit is computed from a stale value, none is lost or
\* reordered, and the timer thread never writes break_interval.
C7_EditsApplyInOrder ==
    [][ \/ break_interval' = break_interval
        \/ /\ mpc = "h72" /\ mpc' = "h73"
           /\ break_interval' =
                 IF key = "+"
                 THEN break_interval + config.interval_change
                 ELSE IF break_interval - config.interval_change
                            > config.min_break_interval
                      THEN break_interval - config.interval_change
                      ELSE config.min_break_interval ]_vars

\* At least two edits have been applied while the timer thread is inside a
\* loop iteration and no break is active.
C7_Witness ==
    /\ mpc = "h73" /\ key = "-"
    /\ break_interval = config.default_break_interval - 2 * config.interval_change
    /\ ~is_break_time
    /\ tpc \in {"t108", "t109", "t122", "t137"}
    /\ now > 0

\* C8: every store of the timer thread to next_break_time writes a value
\* at least as large as the one it replaces.
C8_ClockStoreNeverDecreases ==
    [][ (tpc = "t117" /\ ThreadStep) => next_break_time' >= next_break_time ]_vars

\* C9 as stated: an accepted edit leaves next_break_time at the current
\* elapsed time plus the new interval.
C9_DeadlineFromMomentOfEdit ==
    [][ (mpc = "h73" /\ MainStep) => next_break_time' = now + break_interval' ]_vars

\* C9 amended: an accepted edit leaves next_break_time equal to the new
\* interval itself, counted from the start of the clock, whatever the
\* elapsed time at the edit.
C9_DeadlineIsNewInterval ==
    [][ (mpc = "h73" /\ MainStep) => next_break_time' = break_interval' ]_vars

\* An accepted edit, made after the clock has moved, has stored the new
\* interval and is about to store the deadline.
C9_Witness ==
    /\ mpc = "h73"
    /\ now > 0
    /\ ~is_break_time
    /\ next_break_time # new_interval

\* C10: once `+` and then `-` have been handled with no break active, the
\* interval is the one the timer started with.
C10_PlusMinusRoundTrip ==
    mpc \in {"m212", "m213", "m216", "done"}
        => break_interval = config.default_break_interval

\* Both keys have been handled, from an interval above the minimum.
C10_Witness ==
    /\ mpc = "m212"
    /\ stdin = << >>
    /\ ~is_break_time
    /\ config.default_break_interval > config.min_break_interval
    /\ break_interval = config.default_break_interval

\* C11: a `-` handled while the interval equals the minimum reports
\* "already at minimum", never "decreased", and stores the same interval.
C11_DecreaseAtMinimum ==
    (mpc \in {"h72", "h73"} /\ key = "-"
        /\ current_interval = config.min_break_interval)
        => /\ action = "already at minimum"
           /\ new_interval = current_interval
           /\ break_interval = current_interval

\* The `-` at the minimum has computed its outcome and stored the interval.
C11_Witness ==
    /\ mpc = "h73" /\ key = "-"
    /\ current_interval = config.min_break_interval
    /\ action = "already at minimum"

\* C12: once should_exit is true no step of either thread makes it false.
C12_ExitStaysSet ==
    [][ should_exit => should_exit' ]_vars

\* should_exit has been set and the program has finished.
C12_Witness ==
    /\ should_exit
    /\ mpc = "done"
    /\ tpc = "done"

C18_DeadlineEqualsInterval ==
    (~is_break_time /\ mpc # "h73") => next_break_time = break_interval

\* An edit has completed after the clock moved; no break is active.
C18_Witness ==
    /\ ~is_break_time
    /\ mpc = "keys"
    /\ now > 0
    /\ break_interval # config.default_break_interval
    /\ next_break_time = break_interval

\* C19: is_break_time, once true, stays true, and reminder_count never
\* decreases.
C19_BreakAndCountMonotonic ==
    [][ /\ is_break_time => is_break_time'
        /\ reminder_count' >= reminder_count ]_vars

\* A handler store runs while the break is active and reminders have been
\* counted.
C19_Witness ==
    /\ is_break_time
    /\ reminder_count > 0
    /\ mpc = "h73"

\* C13: handling `?` or an unrecognised key (reading it and running its
\* arm) changes none of break_interval, next_break_time, reminder_count,
\* is_break_time, should_exit.
C13_HelpAndUnknownChangeNothing ==
    [][ (MainStep /\ (mpc \in {"m193", "m201"} \/ mpc' \in {"m193", "m201"}))
            => UNCHANGED timer ]_vars

\* An unrecognised key is being handled after an edit and after the clock
\* moved.
C13_Witness ==
    /\ mpc = "m201"
    /\ now > 0
    /\ break_interval # config.default_break_interval

\* The value of a digit character.
DigitValue(c) == CHOOSE d \in 0 .. 9 : DigitChars[d + 1] = c

\* C15: for seconds < 3600 the text format_time prints is mm:ss with two
\* digits each, mm < 60, ss < 60 and 60 * mm + ss = seconds.
C15_FormatTimeRoundTrip ==
    (tpc = "t137" /\ countdown # << >> /\ next_break - elapsed < 3600)
        => /\ Len(countdown) = 5
           /\ countdown[3] = ":"
           /\ \A i \in {1, 2, 4, 5} :
                 \E d \in 0 .. 9 : DigitChars[d + 1] = countdown[i]
           /\ LET mm == 10 * DigitValue(countdown[1]) + DigitValue(countdown[2])
                   ss == 10 * DigitValue(countdown[4]) + DigitValue(countdown[5])
               IN  /\ mm < 60
                   /\ ss < 60
                   /\ 60 * mm + ss = next_break - elapsed

\* format_time(65) has been printed as 01:05.
C15_Witness ==
    /\ tpc = "t137"
    /\ next_break - elapsed = 65
    /\ countdown = << "0", "1", ":", "0", "5" >>

C17_NoKeyRun ==
    /\ [](tpc \in {"t112", "t116", "t117", "t122"}
             => next_break = config.default_break_interval
                               + reminders * config.reminder_interval)
    /\ [](tpc \in {"t116", "t117"} => elapsed >= next_break)
    /\ [](tpc = "t122" => elapsed < next_break)
    /\ [](tpc = "done" => reminder_count = config.max_reminders)
    /\ <>(tpc = "done")

\* The run without keys has ended: the last reminder's deadline was
\* default_break_interval + 7 * reminder_interval and the loop was left at
\* the next one.
C17_Witness ==
    /\ tpc = "done"
    /\ mpc = "keys"
    /\ reminder_count = config.max_reminders
    /\ next_break_time = config.default_break_interval
                            + config.max_reminders * config.reminder_interval

\* C20: no u64 subtraction underflows: neither thread panics, line 60 is
\* reached only with the interval at least interval_change, and the
\* countdown branch (line 123) only with elapsed below next_break.
C20_NoUnderflow ==
    /\ mpc # "panicked"
    /\ tpc # "panicked"
    /\ (mpc = "h56" /\ key = "-") => break_interval >= config.interval_change
    /\ tpc = "t122" => elapsed < next_break

\* Both subtractions have just been evaluated: `-` at an interval equal to
\* interval_change, and a countdown.
C20_Witness ==
    /\ mpc = "h72" /\ key = "-"
    /\ current_interval = config.interval_change
    /\ tpc = "t137"
    /\ countdown # << >>

====
